---- MODULE Spec2Model ----
(***************************************************************************)
(* BeES Weekly Dashboard (src/app.py): the Streamlit script as a state     *)
(* machine.  One execution of the script (lines 111-169) is one step; the  *)
(* process-wide cache of download_weekly_data, the session's "years"       *)
(* entry, the wall clock and the rendered page are the state.  The pure    *)
(* parts (the column normalisation, build_chart, the chart loop and        *)
(* _is_dark_theme) are operators, used by the script step and also         *)
(* exercised on their own over wider inputs.                               *)
(***************************************************************************)
EXTENDS Integers, Sequences, FiniteSets, TLC

VARIABLES
    now,            \* wall clock, seconds
    cache,          \* st.cache_data store of download_weekly_data: key -> entry
    session_state,  \* st.session_state: a function whose domain is a subset of {"years"}
    theme,          \* host options theme.base / theme.backgroundColor
    rerun,          \* st.rerun() was issued and the script has not run again yet
    call,           \* the last call of download_weekly_data (what it did)
    page,           \* what the last execution of the script put on the page
    p_phase,        \* pure-function runs: "idle" | "input" | "table" | "chart" | "rendered"
    p_tickers,      \* pure-function runs: the ticker list passed to download_weekly_data
    p_frame,        \* pure-function runs: what yf.download returned
    p_table,        \* pure-function runs: what download_weekly_data returned
    p_ticker,       \* pure-function runs: the (label, ticker) given to build_chart
    p_result,       \* pure-function runs: what build_chart did
    t_result        \* pure-function runs: what _is_dark_theme did

vars == << now, cache, session_state, theme, rerun, call, page,
           p_phase, p_tickers, p_frame, p_table, p_ticker, p_result, t_result >>

appVars  == << now, cache, session_state, rerun, call, page >>
pureVars == << p_phase, p_tickers, p_frame, p_table, p_ticker, p_result >>

-----------------------------------------------------------------------------
(* Program constants *)

DEFAULT_TICKERS ==
    << [label |-> "Nifty BeES",     ticker |-> "NIFTYBEES.NS"],
       [label |-> "Bank BeES",      ticker |-> "BANKBEES.NS"],
       [label |-> "Gold BeES",      ticker |-> "GOLDBEES.NS"],
       [label |-> "Silver BeES",    ticker |-> "SILVERBEES.NS"],
       [label |-> "Hang Seng BeES", ticker |-> "HNGSNGBEES.NS"],
       [label |-> "MON 100",        ticker |-> "MON100.NS"] >>

custom == DEFAULT_TICKERS

TTL == 3600
DaysPerYear == 365
SecondsPerDay == 86400
DefaultYears == 7
MinYears == 2
MaxYears == 15
SmaWindow == 30
MinPeriods == 1
GridColumns == 2

(* Bounds of the model *)

ClockStep == 1800       \* seconds by which one Tick advances the clock
MaxTicks == 3           \* the clock stops after this many ticks
MaxLen == 40            \* longest raw Close series tried

FieldNames == {"Open", "Close", "Volume"}

-----------------------------------------------------------------------------
(* Series and frames *)

Point(d, v) == [date |-> d, nan |-> FALSE, value |-> v]
NaNPoint(d) == [date |-> d, nan |-> TRUE, value |-> 0]

\* The weekly series every column of a frame carries when the values are not
\* what is being examined: three weeks, the second one missing.
SampleSeries == << Point(1, 10), NaNPoint(2), Point(3, 14) >>

RECURSIVE DropNa(_)
DropNa(s) ==
    IF s = << >> THEN << >>
    ELSE IF Head(s).nan THEN DropNa(Tail(s))
         ELSE << Head(s) >> \o DropNa(Tail(s))

\* Series.rolling(window, min_periods).mean(): one pass with a running sum and a
\* running count of observations; the point leaving the window is taken out,
\* the point entering is added, a missing point counts for neither.
RECURSIVE RollFrom(_, _, _, _, _, _)
RollFrom(s, i, sum, nobs, window, min_periods) ==
    IF i > Len(s) THEN << >>
    ELSE LET out   == IF i > window /\ ~s[i - window].nan THEN s[i - window].value ELSE 0
             outn  == IF i > window /\ ~s[i - window].nan THEN 1 ELSE 0
             in    == IF s[i].nan THEN 0 ELSE s[i].value
             inn   == IF s[i].nan THEN 0 ELSE 1
             sum2  == sum - out + in
             nobs2 == nobs - outn + inn
             pt    == IF nobs2 >= min_periods /\ nobs2 > 0
                      THEN [date |-> s[i].date, nan |-> FALSE, num |-> sum2, den |-> nobs2]
                      ELSE [date |-> s[i].date, nan |-> TRUE, num |-> 0, den |-> 1]
         IN << pt >> \o RollFrom(s, i + 1, sum2, nobs2, window, min_periods)

\* (a mean that never lets a point leave the window)
ExpandingMean(s, window, min_periods) == RollFrom(s, 1, 0, 0, Len(s) + 1, min_periods)

RollingMean(s, window, min_periods) == RollFrom(s, 1, 0, 0, window, min_periods)

-----------------------------------------------------------------------------
(* download_weekly_data *)

FetchFailure == [kind |-> "error", nlevels |-> 0, cols |-> << >>]
Frame(n, c) == [kind |-> "frame", nlevels |-> n, cols |-> c]

\* (the columns left keyed by field)
FromProductNoRekey(tickers, frame) == frame.cols

\* pd.MultiIndex.from_product([[tickers[0]], data.columns]) over the frame's data

FromProduct(tickers, frame) ==
    [c \in {<< tickers[1], k[1] >> : k \in DOMAIN frame.cols} |-> frame.cols[<< c[2] >>]]

NoData == [kind |-> "none"]

Today(t) == t \div SecondsPerDay

\* (download_weekly_data with the failure of yf.download turned into an empty table)
DownloadWeeklyDataSwallow(tickers, years, t, frame) ==
    LET end   == Today(t)
        start == end - DaysPerYear * years
    IN IF frame.kind = "error"
       THEN [kind |-> "table", start |-> start, end |-> end, asof |-> t,
             nlevels |-> 2, cols |-> << >>]
       ELSE [kind |-> "table", start |-> start, end |-> end, asof |-> t,
             nlevels |-> 2,
             cols |-> IF frame.nlevels = 2 THEN frame.cols ELSE FromProduct(tickers, frame)]

\* The body of download_weekly_data, given what yf.download did.
DownloadWeeklyData(tickers, years, t, frame) ==
    LET end   == Today(t)
        start == end - DaysPerYear * years
    IN IF frame.kind = "error" THEN [kind |-> "raise", error |-> "FetchError"]
       ELSE IF frame.nlevels = 2
            THEN [kind |-> "table", start |-> start, end |-> end, asof |-> t,
                  nlevels |-> 2, cols |-> frame.cols]
            ELSE [kind |-> "table", start |-> start, end |-> end, asof |-> t,
                  nlevels |-> 2, cols |-> FromProduct(tickers, frame)]

-----------------------------------------------------------------------------
(* st.cache_data(ttl=60 * 60) around download_weekly_data *)

NoEntry == [kind |-> "none"]

\* (a key that leaves the years out)
CacheKeyIgnoringYears(tickers, years) == << tickers, DefaultYears >>

\* The key of a call: its arguments.
CacheKey(tickers, years) == << tickers, years >>

\* (an entry still served at the moment its ttl has passed)
FreshAtOrBeforeTtl(entry, t) == entry.kind = "entry" /\ t <= entry.stored + TTL

\* An entry is served while less than ttl seconds have passed since it was stored.
Fresh(entry, t) == entry.kind = "entry" /\ t < entry.stored + TTL

Lookup(c, key) == IF key \in DOMAIN c THEN c[key] ELSE NoEntry

Store(c, key, entry) ==
    [k \in DOMAIN c \cup {key} |-> IF k = key THEN entry ELSE c[k]]

EmptyCache == [k \in {} |-> NoEntry]

\* (a clear that removes nothing)
CacheClearNothing(c) == c

\* download_weekly_data.clear()
CacheClear(c) == EmptyCache

\* One call of the cached function: [fetched, result, cache].
CachedDownload(c, t, tickers, years, frame) ==
    LET key   == CacheKey(tickers, years)
        entry == Lookup(c, key)
    IN IF Fresh(entry, t)
       THEN [key |-> key, fetched |-> FALSE, result |-> entry.value, cache |-> c]
       ELSE LET r == DownloadWeeklyData(tickers, years, t, frame)
            IN IF r.kind = "raise"
               THEN [key |-> key, fetched |-> TRUE, result |-> r, cache |-> c]
               ELSE [key |-> key, fetched |-> TRUE, result |-> r,
                     cache |-> Store(c, key, [kind |-> "entry", value |-> r, stored |-> t])]

-----------------------------------------------------------------------------
(* build_chart *)

\* (the inner level taken for the outer one)
LevelValues1(df) == {c[Len(c)] : c \in DOMAIN df.cols}

\* df.columns.get_level_values(0)
LevelValues0(df) == {c[1] : c \in DOMAIN df.cols}

\* (the Close column with its missing values kept)
CloseSeriesKeepNa(df, ticker) == df.cols[<< ticker, "Close" >>]

\* df[ticker]["Close"].dropna()
CloseSeries(df, ticker) == DropNa(df.cols[<< ticker, "Close" >>])

BuildChart(df, label, ticker, is_dark) ==
    IF ticker \notin LevelValues0(df)
    THEN [kind |-> "raise", error |-> "ValueError",
          msg |-> << "No data returned for", ticker >>]
    ELSE IF << ticker, "Close" >> \notin DOMAIN df.cols
         THEN [kind |-> "raise", error |-> "KeyError", msg |-> << "Close" >>]
         ELSE LET close  == CloseSeries(df, ticker)
                  sma_30 == RollingMean(close, SmaWindow, MinPeriods)
              IN [kind |-> "figure",
                  title |-> << label, ticker, "Weekly Close & 30W SMA" >>,
                  close |-> close,
                  sma |-> sma_30,
                  template |-> IF is_dark THEN "plotly_dark" ELSE "plotly_white"]

-----------------------------------------------------------------------------
(* _is_dark_theme *)

HexDigits == {"0", "1", "2", "3", "4", "5", "6", "7", "8", "9",
              "a", "b", "c", "d", "e", "f", "A", "B", "C", "D", "E", "F"}

HexVal(ch) ==
    CASE ch = "0" -> 0 [] ch = "1" -> 1 [] ch = "2" -> 2 [] ch = "3" -> 3
      [] ch = "4" -> 4 [] ch = "5" -> 5 [] ch = "6" -> 6 [] ch = "7" -> 7
      [] ch = "8" -> 8 [] ch = "9" -> 9
      [] ch \in {"a", "A"} -> 10 [] ch \in {"b", "B"} -> 11
      [] ch \in {"c", "C"} -> 12 [] ch \in {"d", "D"} -> 13
      [] ch \in {"e", "E"} -> 14 [] ch \in {"f", "F"} -> 15

\* int(two characters, 16): the value, or -1 where Python raises ValueError
Int16(hi, lo) ==
    IF hi \in HexDigits /\ lo \in HexDigits THEN 16 * HexVal(hi) + HexVal(lo) ELSE 0 - 1

\* str.lower() on the values theme.base is given here
Lower(str) ==
    CASE str = "Dark" -> "dark"
      [] str = "LIGHT" -> "light"
      [] OTHER -> str

\* The colours whose luminance is 0.45 exactly and for which the double
\* arithmetic of (0.2126 * r + 0.7152 * g + 0.0722 * b) / 255.0 gives
\* 0.44999999999999996; for the other fourteen it gives 0.45.
RoundsBelow == { << 42, 131, 168 >>, << 107, 114, 145 >>,
                 << 189, 87, 171 >>, << 203, 100, 1 >> }

\* luminance < 0.45, in ten-thousandths of a component
LuminanceBelow(r, g, b) ==
    LET s == 2126 * r + 7152 * g + 722 * b
        limit == 45 * 255 * 100
    IN s < limit \/ (s = limit /\ << r, g, b >> \in RoundsBelow)

IsDarkTheme(th) ==
    LET base == Lower(th.base)
        bg   == th.bg
    IN IF base \in {"dark", "light"}
       THEN [kind |-> "value", dark |-> (base = "dark")]
       ELSE IF Len(bg) \in {4, 7} /\ bg[1] = "#"
            THEN LET full == IF Len(bg) = 4
                             THEN << "#", bg[2], bg[2], bg[3], bg[3], bg[4], bg[4] >>
                             ELSE bg
                     r == Int16(full[2], full[3])
                     g == Int16(full[4], full[5])
                     b == Int16(full[6], full[7])
                 IN IF r < 0 \/ g < 0 \/ b < 0
                    THEN [kind |-> "raise", error |-> "ValueError"]
                    ELSE [kind |-> "value", dark |-> LuminanceBelow(r, g, b)]
            ELSE [kind |-> "value", dark |-> FALSE]

-----------------------------------------------------------------------------
(* The script: lines 116-169 *)

\* ticker.strip() is empty
IsBlank(ticker) == ticker \in {"", " ", "  "}

\* selected = [t for t in custom.values() if t.strip()]
RECURSIVE Selected(_)
Selected(items) ==
    IF items = << >> THEN << >>
    ELSE IF IsBlank(Head(items).ticker) THEN Selected(Tail(items))
         ELSE << Head(items).ticker >> \o Selected(Tail(items))

selected == Selected(custom)

\* (a handler for the missing-ticker error alone)
CatchesOnlyValueError(r) == r.error = "ValueError"

\* except Exception as exc
Catches(r) == TRUE

\* The chart loop (lines 144-153) from the item at index idx (0-based) on:
\* the outputs in order, and whether an exception left the loop.
RECURSIVE ChartLoop(_, _, _, _)
ChartLoop(df, items, idx, is_dark) ==
    IF idx >= Len(items) THEN [outputs |-> << >>, raised |-> FALSE, error |-> ""]
    ELSE LET it == items[idx + 1]
         IN IF IsBlank(it.ticker) THEN ChartLoop(df, items, idx + 1, is_dark)
            ELSE LET r == BuildChart(df, it.label, it.ticker, is_dark)
                 IN IF r.kind = "raise" /\ ~Catches(r)
                    THEN [outputs |-> << >>, raised |-> TRUE, error |-> r.error]
                    ELSE LET rest == ChartLoop(df, items, idx + 1, is_dark)
                             out  == IF r.kind = "raise"
                                     THEN [kind |-> "warning", label |-> it.label,
                                           ticker |-> it.ticker, text |-> r.msg]
                                     ELSE [kind |-> "chart", label |-> it.label,
                                           ticker |-> it.ticker,
                                           column |-> idx % GridColumns, fig |-> r]
                         IN [outputs |-> << out >> \o rest.outputs,
                             raised |-> rest.raised, error |-> rest.error]

\* A page: status "ok" (the script ran to its end) or "error" (an exception left
\* it: its type, and the line of the statement it left), the years read from the
\* session, the table, the charts and warnings in order, and whether the raw data
\* table and the controls were reached.
BlankPage == [status |-> "none", error |-> "", at |-> 0, years |-> 0, data |-> NoData,
              outputs |-> << >>, table |-> FALSE, controls |-> FALSE]

\* Lines 140-166 once download_weekly_data has returned df.
RenderPage(df, years, th) ==
    LET dark == IsDarkTheme(th)
    IN IF dark.kind = "raise"
       THEN [status |-> "error", error |-> dark.error, at |-> 140, years |-> years,
             data |-> df, outputs |-> << >>, table |-> FALSE, controls |-> FALSE]
       ELSE LET loop == ChartLoop(df, custom, 0, dark.dark)
            IN IF loop.raised
               THEN [status |-> "error", error |-> loop.error, at |-> 148,
                     years |-> years, data |-> df, outputs |-> loop.outputs,
                     table |-> FALSE, controls |-> FALSE]
               ELSE [status |-> "ok", error |-> "", at |-> 0, years |-> years,
                     data |-> df, outputs |-> loop.outputs, table |-> TRUE,
                     controls |-> TRUE]

NoSession == [k \in {} |-> 0]

\* st.session_state.get("years", 7)
SessionYears(ss) == IF "years" \in DOMAIN ss THEN ss["years"] ELSE DefaultYears

\* st.slider(..., value=years, key="years") leaves the key set
SliderState(ss, years) == [k \in {"years"} |-> SessionYears(ss)]

-----------------------------------------------------------------------------
(* What the data source may answer *)

\* A frame keyed by ticker then field: every ticker of `full` with every field,
\* every ticker of `partial` with every field but Close.
TickerFrame(full, partial) ==
    Frame(2, [c \in (full \X FieldNames) \cup (partial \X (FieldNames \ {"Close"}))
                |-> SampleSeries])

\* A frame keyed by field alone.
FieldFrame(fields) == Frame(1, [c \in {<< f >> : f \in fields} |-> SampleSeries])

Range(seq) == {seq[i] : i \in DOMAIN seq}

\* Every answer to a request for `tickers`: a failure, a frame keyed by field
\* (with or without Close, or empty), or a frame keyed by ticker in which each
\* requested ticker is complete, lacks Close, or is absent.
Answers(tickers) ==
    {FetchFailure}
    \cup {FieldFrame(FieldNames), FieldFrame(FieldNames \ {"Close"}), FieldFrame({})}
    \cup {TickerFrame(full, partial) :
            << full, partial >> \in {pr \in (SUBSET Range(tickers)) \X (SUBSET Range(tickers)) :
                                        pr[1] \cap pr[2] = {}}}

\* The answers the running dashboard is tried with.
AppAnswers ==
    { FetchFailure,
      TickerFrame(Range(selected), {}),
      TickerFrame(Range(selected) \ {selected[1], selected[3]}, {selected[1]}) }

\* The slider's values, and the ones the user is tried with.
SliderValues == MinYears .. MaxYears
YearChoices == {y \in SliderValues : y \in {MinYears, DefaultYears}}

AppThemes == { [base |-> "dark", bg |-> << >>],
               [base |-> "", bg |-> << "#", "g", "g", "g" >>] }

-----------------------------------------------------------------------------
(* The dashboard: one step per execution of the script *)

\* A call of download_weekly_data: what ran the script, the cache key, whether
\* yf.download was called and what it answered ("frame", "error", or "none" when
\* it was not called), and the table returned or the exception raised.
NoCall == [trigger |-> "none", key |-> << >>, fetched |-> FALSE, answer |-> "none",
           result |-> NoData]

\* One execution of the script in a session whose state is ss; `button` is
\* what st.button("Refresh data") returns in it.  yf.download is called only
\* when the cache holds no fresh entry, and then answers any of AppAnswers.
RunScript(trigger, ss, button) ==
    LET years == SessionYears(ss)
        hit   == Fresh(Lookup(cache, CacheKey(selected, years)), now)
    IN \E frame \in IF hit THEN {FetchFailure} ELSE AppAnswers :
       LET r == CachedDownload(cache, now, selected, years, frame)
       IN /\ call' = [trigger |-> trigger, key |-> r.key, fetched |-> r.fetched,
                      answer |-> IF r.fetched THEN frame.kind ELSE "none",
                      result |-> r.result]
          /\ UNCHANGED << now, theme >>
          /\ UNCHANGED << p_phase, p_tickers, p_frame, p_table, p_ticker, p_result,
                          t_result >>
          /\ IF r.result.kind = "raise"
             THEN /\ page' = [status |-> "error", error |-> r.result.error, at |-> 122,
                              years |-> years, data |-> NoData, outputs |-> << >>,
                              table |-> FALSE, controls |-> FALSE]
                  /\ cache' = r.cache
                  /\ rerun' = FALSE
                  /\ session_state' \in {ss, NoSession}
             ELSE LET pg == RenderPage(r.result, years, theme)
                  IN /\ page' = pg
                     /\ IF pg.status = "ok"
                        THEN /\ session_state' = SliderState(ss, years)
                             /\ cache' = IF button THEN CacheClear(r.cache) ELSE r.cache
                             /\ rerun' = button
                        ELSE /\ session_state' \in {ss, NoSession}
                             /\ cache' = r.cache
                             /\ rerun' = FALSE

Tick ==
    /\ ~rerun
    /\ now + ClockStep <= MaxTicks * ClockStep
    /\ now' = now + ClockStep
    /\ UNCHANGED << cache, session_state, theme, rerun, call, page >>
    /\ UNCHANGED << p_phase, p_tickers, p_frame, p_table, p_ticker, p_result, t_result >>

\* A browser opens the page: a new session.
Load == /\ ~rerun
        /\ RunScript("load", NoSession, FALSE)

\* The user reruns the script from the host's menu.
UserRerun == /\ ~rerun
             /\ page.status # "none"
             /\ RunScript("rerun", session_state, FALSE)

\* The user moves the "History (years)" slider.
MoveSlider == /\ ~rerun
              /\ page.controls
              /\ \E y \in YearChoices \ {SessionYears(session_state)} :
                    RunScript("slider", [k \in {"years"} |-> y], FALSE)

\* The user clicks "Refresh data".
ClickRefresh == /\ ~rerun
                /\ page.controls
                /\ RunScript("button", session_state, TRUE)

\* st.rerun(): the script runs again at once.
AutoRerun == /\ rerun
             /\ RunScript("auto", session_state, FALSE)

PureIdle ==
    /\ p_phase = "idle" /\ p_tickers = << >> /\ p_frame = FetchFailure
    /\ p_table = NoData /\ p_ticker = << >> /\ p_result = NoData

Init ==
    /\ now = 0
    /\ cache = EmptyCache
    /\ session_state = NoSession
    /\ theme \in AppThemes
    /\ rerun = FALSE
    /\ call = NoCall
    /\ page = BlankPage
    /\ PureIdle
    /\ t_result = NoData

Next ==
    \/ Tick
    \/ Load
    \/ UserRerun
    \/ MoveSlider
    \/ ClickRefresh
    \/ AutoRerun

Spec == Init /\ [][Next]_vars

-----------------------------------------------------------------------------
(* Properties of the dashboard *)

\* A step that executes the script: every step but a Tick.
ScriptStep == now' = now

\* The outer keys of a table, read off its columns.
OuterKeys(df) == {c[1] : c \in DOMAIN df.cols}

\* C1: a call of download_weekly_data whose key has an entry stored less than
\* 3600 seconds ago (and not cleared since) calls yf.download not at all and
\* returns the table of that entry; once 3600 seconds have passed since the
\* entry was stored, the call does not reuse it and fetches again.
C1_ReuseWithinTtl ==
    [][ ScriptStep =>
          LET e == Lookup(cache, call'.key)
          IN /\ (e.kind = "entry" /\ now - e.stored < TTL)
                   => (~call'.fetched /\ call'.answer = "none" /\ call'.result = e.value)
             /\ (e.kind = "entry" /\ now - e.stored >= TTL)
                   => (call'.fetched /\ call'.answer # "none")
             /\ e.kind = "none" => call'.fetched ]_vars

\* C1's case: a call answered from the cache some time after the entry was stored.
C1_Witness ==
    /\ call.trigger # "none"
    /\ ~call.fetched
    /\ call.result.kind = "table"
    /\ now > call.result.asof

\* C2: once Refresh has run download_weekly_data.clear() and asked for a rerun,
\* the cache holds no entry for any key, and the next call of
\* download_weekly_data calls yf.download.
C2_RefreshRefetches ==
    [][ rerun => (DOMAIN cache = {} /\ call'.trigger = "auto" /\ call'.fetched
                  /\ call'.answer # "none") ]_vars

\* C2's case: the rerun after a Refresh whose own execution was served from the
\* cache has fetched a table.
C2_Witness ==
    /\ call.trigger = "auto"
    /\ call.fetched
    /\ call.result.kind = "table"
    /\ now > 0

\* C8: when yf.download fails, the exception leaves download_weekly_data and the
\* script at line 122: the page shows the failure, no chart, no warning and no
\* data table; no table stands in for the failure; the cache gets no entry for
\* the key, and the next execution with the same key fetches again.
C8_FetchFailureSurfaces ==
    [][ /\ call'.answer = "error" =>
             /\ call'.result.kind = "raise"
             /\ page'.status = "error" /\ page'.error = "FetchError" /\ page'.at = 122
             /\ page'.outputs = << >> /\ ~page'.table /\ page'.data.kind = "none"
             /\ ~Fresh(Lookup(cache', call'.key), now')
             /\ ScriptStep => cache' = cache
        /\ (call.answer = "error" /\ ScriptStep /\ call'.key = call.key)
             => call'.fetched ]_vars

\* C8's case: a failed fetch for a key that was fetched successfully before.
C8_Witness ==
    /\ call.answer = "error"
    /\ page.status = "error"
    /\ call.key \in DOMAIN cache

\* C9 as stated: moving the slider to another value always makes the next
\* execution fetch.
C9_SliderAlwaysFetches ==
    [][ (ScriptStep /\ call'.trigger = "slider") => call'.fetched ]_vars

\* C9, amended: after the slider is moved to another value, the next execution
\* calls download_weekly_data with the new years and fetches unless the cache
\* holds a fresh entry for the new key; in every execution the table used is one
\* fetched for the window of the years read from the session, which is the
\* value the slider is left at.
C9_TableOfSelectedYears ==
    [][ ScriptStep =>
          /\ page'.data.kind = "table"
                => page'.data.end - page'.data.start = DaysPerYear * page'.years
          /\ page'.status = "ok" => SessionYears(session_state') = page'.years
          /\ call'.trigger = "slider" =>
                /\ page'.years # SessionYears(session_state)
                /\ ~Fresh(Lookup(cache, << selected, page'.years >>), now)
                      => call'.fetched ]_vars

\* C9's case: the slider was moved off the default and the charts were built.
C9_Witness ==
    /\ call.trigger = "slider"
    /\ page.status = "ok"
    /\ page.years # DefaultYears
    /\ DefaultYears \in {k[2] : k \in DOMAIN cache}

\* What the chart loop is to show for a table: one output per configured
\* ticker, in order; a chart for a ticker with a Close column, a warning
\* naming label and ticker for a ticker that is no outer key.
LoopShowsEveryTicker(df, outs) ==
    /\ Len(outs) = Len(custom)
    /\ \A i \in 1 .. Len(custom) :
         /\ outs[i].label = custom[i].label
         /\ outs[i].ticker = custom[i].ticker
         /\ custom[i].ticker \notin OuterKeys(df) => outs[i].kind = "warning"
         /\ << custom[i].ticker, "Close" >> \in DOMAIN df.cols => outs[i].kind = "chart"

\* C6: in an execution whose fetch succeeded, every configured ticker gets
\* exactly one output, in order (a chart when present, a warning when absent),
\* and the raw data table is rendered.
C6_EveryTickerThenTable ==
    call.result.kind = "table" =>
        /\ page.status = "ok"
        /\ page.table
        /\ LoopShowsEveryTicker(page.data, page.outputs)

-----------------------------------------------------------------------------
(* download_weekly_data, build_chart and the page on their own, over every *)
(* answer of the source                                                    *)

AppIdle ==
    /\ now = 0 /\ cache = EmptyCache /\ session_state = NoSession
    /\ rerun = FALSE /\ call = NoCall /\ page = BlankPage

\* The ticker lists tried: each configured ticker alone, and the first n.
Requests ==
    {<< selected[i] >> : i \in 1 .. Len(selected)}
    \cup {SubSeq(selected, 1, n) : n \in 1 .. Len(selected)}

RenderThemes == { [base |-> "dark", bg |-> << >>],
                  [base |-> "", bg |-> << "#", "F", "F", "F" >>],
                  [base |-> "", bg |-> << "#", "g", "g", "g" >>] }

InitRender ==
    /\ AppIdle
    /\ theme \in RenderThemes
    /\ t_result = NoData
    /\ p_phase = "input"
    /\ p_tickers \in Requests
    /\ p_frame \in Answers(p_tickers)
    /\ p_table = NoData /\ p_ticker = << >> /\ p_result = NoData

\* data = download_weekly_data(tickers, years=7), not cached
ApplyDownload ==
    /\ p_phase = "input"
    /\ p_table' = DownloadWeeklyData(p_tickers, DefaultYears, now, p_frame)
    /\ p_phase' = "table"
    /\ UNCHANGED << p_tickers, p_frame, p_ticker, p_result, theme, t_result >>
    /\ UNCHANGED appVars

\* build_chart(data, label, ticker, is_dark) for one configured ticker
ApplyBuildChart ==
    /\ p_phase = "table"
    /\ p_table.kind = "table"
    /\ \E i \in 1 .. Len(custom), is_dark \in BOOLEAN :
          /\ p_ticker' = custom[i]
          /\ p_result' = BuildChart(p_table, custom[i].label, custom[i].ticker, is_dark)
    /\ p_phase' = "chart"
    /\ UNCHANGED << p_tickers, p_frame, p_table, theme, t_result >>
    /\ UNCHANGED appVars

\* lines 140-166 on data
ApplyRender ==
    /\ p_phase = "table"
    /\ p_table.kind = "table"
    /\ p_result' = RenderPage(p_table, DefaultYears, theme)
    /\ p_phase' = "rendered"
    /\ UNCHANGED << p_tickers, p_frame, p_table, p_ticker, theme, t_result >>
    /\ UNCHANGED appVars

NextRender ==
    \/ ApplyDownload
    \/ ApplyBuildChart
    \/ ApplyRender

SpecRender == InitRender /\ [][NextRender]_vars

\* C3: whatever shape the source answers in, download_weekly_data returns a
\* two-level table whose outer keys are requested tickers; no column of it is
\* keyed by field alone.
C3_TwoLevelOverRequested ==
    (p_phase # "input" /\ p_table.kind = "table") =>
        /\ p_table.nlevels = 2
        /\ \A c \in DOMAIN p_table.cols :
              /\ Len(c) = 2
              /\ c[1] \in Range(p_tickers)
              /\ c[2] \in FieldNames
        /\ Cardinality(DOMAIN p_table.cols) = Cardinality(DOMAIN p_frame.cols)

\* C3's case: one ticker requested, the answer keyed by field.
C3_Witness ==
    /\ p_phase = "table"
    /\ Len(p_tickers) = 1
    /\ p_frame.kind = "frame" /\ p_frame.nlevels = 1
    /\ << p_tickers[1], "Close" >> \in DOMAIN p_table.cols

\* C4: build_chart raises the "No data returned for <ticker>" error exactly
\* when the ticker is no outer key of the table; for a ticker that is an outer
\* key with a Close column it returns a figure, whichever other tickers are
\* absent.
C4_RaisesIffAbsent ==
    p_phase = "chart" =>
        /\ (p_result.kind = "raise" /\ p_result.error = "ValueError")
              <=> p_ticker.ticker \notin OuterKeys(p_table)
        /\ p_ticker.ticker \notin OuterKeys(p_table)
              => p_result.msg = << "No data returned for", p_ticker.ticker >>
        /\ << p_ticker.ticker, "Close" >> \in DOMAIN p_table.cols
              => p_result.kind = "figure"

\* C4's case: a figure for a ticker of a table from which another configured
\* ticker is absent.
C4_Witness ==
    /\ p_phase = "chart"
    /\ p_result.kind = "figure"
    /\ \E i \in 1 .. Len(custom) : custom[i].ticker \notin OuterKeys(p_table)

\* The configured tickers for which build_chart raises something else than
\* the missing-ticker error: outer keys without a Close column.
NoCloseAt(df) ==
    {i \in 1 .. Len(custom) :
        /\ custom[i].ticker \in OuterKeys(df)
        /\ << custom[i].ticker, "Close" >> \notin DOMAIN df.cols}

\* C7 as stated: a failure of build_chart other than the missing-ticker error
\* ends the execution: no warning is shown for that ticker and no later ticker
\* is rendered.
C7_OtherFailuresFatal ==
    (p_phase = "rendered" /\ p_result.at # 140) =>
        \A i \in NoCloseAt(p_table) :
            /\ p_result.status = "error"
            /\ \A k \in 1 .. Len(p_result.outputs) :
                  \A j \in i .. Len(custom) :
                      p_result.outputs[k].ticker # custom[j].ticker

\* C7, amended: every exception build_chart raises for a ticker is recovered in
\* the loop, the missing-ticker error and any other (a ticker that is an outer
\* key without a Close column): a warning naming its label and ticker is
\* shown, the tickers after it are rendered, and the execution goes on to the
\* raw data table.
C7_EveryFailureRecovered ==
    (p_phase = "rendered" /\ p_result.at # 140) =>
        /\ p_result.status = "ok"
        /\ p_result.table
        /\ Len(p_result.outputs) = Len(custom)
        /\ \A i \in 1 .. Len(custom) :
              LET o == p_result.outputs[i]
                  failed == \/ custom[i].ticker \notin OuterKeys(p_table)
                            \/ i \in NoCloseAt(p_table)
              IN /\ o.label = custom[i].label
                 /\ o.ticker = custom[i].ticker
                 /\ o.kind = IF failed THEN "warning" ELSE "chart"
                 /\ i \in NoCloseAt(p_table) => o.text = << "Close" >>

\* C7's case: a warning for a ticker without a Close column, and a chart after it.
C7_Witness ==
    /\ p_phase = "rendered"
    /\ \E i \in NoCloseAt(p_table) :
          /\ i < Len(p_result.outputs)
          /\ p_result.outputs[i].kind = "warning"
          /\ p_result.outputs[i + 1].kind = "chart"

-----------------------------------------------------------------------------
(* build_chart over Close series long enough to fill the window *)

\* A raw weekly series of n points: prices that cycle with the week number,
\* every gap-th week missing (gap 0: none missing).
WeeklySeries(n, mult, gap) ==
    [i \in 1 .. n |-> IF gap > 0 /\ i % gap = 0
                      THEN NaNPoint(i)
                      ELSE Point(i, 10 + ((i * mult) % 7))]

SeriesTried ==
    {WeeklySeries(n, mult, gap) : n \in 0 .. MaxLen, mult \in {1, 3}, gap \in {0, 2, 5}}

InitSma ==
    /\ AppIdle
    /\ theme = [base |-> "dark", bg |-> << >>]
    /\ t_result = NoData
    /\ p_phase = "input"
    /\ p_tickers = << selected[3] >>
    /\ \E series \in SeriesTried :
          p_frame = Frame(2, [c \in {selected[3]} \X FieldNames |-> series])
    /\ p_table = NoData /\ p_ticker = << >> /\ p_result = NoData

SpecSma == InitSma /\ [][NextRender]_vars

RECURSIVE SumValues(_, _, _)
SumValues(s, lo, hi) == IF lo > hi THEN 0 ELSE s[lo].value + SumValues(s, lo + 1, hi)

\* The points of a raw series that are not missing, in order.
Present(s) == SelectSeq(s, LAMBDA pt : ~pt.nan)

\* C5: with N the length of the Close series once missing values are dropped,
\* the SMA series has length N and the dates of the Close series; its value at
\* position i (from 0) is the mean of Close[0..i] for i < 29 and of
\* Close[i-29..i] for i >= 29; missing values take no window position.
C5_SmaIsTrailingMean ==
    (p_phase = "chart" /\ p_result.kind = "figure") =>
        LET close == Present(p_table.cols[<< p_ticker.ticker, "Close" >>])
            sma   == p_result.sma
        IN /\ p_result.close = close
           /\ Len(sma) = Len(close)
           /\ \A j \in 1 .. Len(close) :
                 LET lo == IF j - 1 < SmaWindow - 1 THEN 1 ELSE j - (SmaWindow - 1)
                 IN /\ sma[j].date = close[j].date
                    /\ ~sma[j].nan
                    /\ sma[j].den > 0
                    /\ sma[j].num * (j - lo + 1) = SumValues(close, lo, j) * sma[j].den

\* C5's case: a series with missing weeks that is longer than the window once
\* they are dropped.
C5_Witness ==
    /\ p_phase = "chart"
    /\ p_result.kind = "figure"
    /\ Len(p_result.sma) > SmaWindow
    /\ Len(p_table.cols[<< p_ticker.ticker, "Close" >>]) > Len(p_result.close)

-----------------------------------------------------------------------------
(* _is_dark_theme over the host's settings *)

MaxBgLen == 8           \* longest background string of other than 3 or 6 digits

Bases == {"", "dark", "light", "Dark", "LIGHT"}

ShortDigits == {"0", "8", "F", "f", "g"}

Bytes == { << "0", "0" >>, << "F", "F" >>, << "2", "A" >>, << "8", "3" >>,
           << "A", "8" >>, << "5", "a" >>, << "7", "C" >>, << "6", "0" >>,
           << "0", "g" >> }

Backgrounds ==
    {<< "#" >> \o d : d \in [1 .. 3 -> ShortDigits]}
    \cup {<< "#" >> \o a \o b \o c : a \in Bytes, b \in Bytes, c \in Bytes}
    \cup {[i \in 1 .. n |-> IF i = 1 THEN "#" ELSE "0"] : n \in (0 .. MaxBgLen) \ {4, 7}}
    \cup {[i \in 1 .. n |-> "0"] : n \in {4, 7}}
    \cup {<< "w", "h", "i", "t", "e" >>}

InitTheme ==
    /\ AppIdle
    /\ PureIdle
    /\ theme \in [base : Bases, bg : Backgrounds]
    /\ t_result = NoData

ApplyIsDarkTheme ==
    /\ t_result.kind = "none"
    /\ t_result' = IsDarkTheme(theme)
    /\ UNCHANGED << theme, p_phase, p_tickers, p_frame, p_table, p_ticker, p_result >>
    /\ UNCHANGED appVars

NextTheme == ApplyIsDarkTheme

SpecTheme == InitTheme /\ [][NextTheme]_vars

\* A background of '#' and 3 or 6 hex digits.
IsHexColour(bg) ==
    /\ Len(bg) \in {4, 7}
    /\ bg[1] = "#"
    /\ \A i \in 2 .. Len(bg) : bg[i] \in HexDigits

\* Its k-th component (k = 1, 2, 3), the 3-digit form with each digit doubled.
Component(bg, k) ==
    IF Len(bg) = 4 THEN 17 * HexVal(bg[k + 1])
    ELSE 16 * HexVal(bg[2 * k]) + HexVal(bg[2 * k + 1])

\* C10: _is_dark_theme returns dark for base "dark" and light for base
\* "light" whatever the background; with no base set and a background of '#'
\* and 3 or 6 hex digits, dark exactly when
\* 2126*R + 7152*G + 722*B < 0.45 * 255 * 10000; and light, without raising,
\* when no usable colour is there.
C10_ThemeRule ==
    t_result.kind # "none" =>
        /\ theme.base = "dark" => (t_result.kind = "value" /\ t_result.dark)
        /\ theme.base = "light" => (t_result.kind = "value" /\ ~t_result.dark)
        /\ (theme.base = "" /\ IsHexColour(theme.bg)) =>
              /\ t_result.kind = "value"
              /\ t_result.dark <=>
                    (2126 * Component(theme.bg, 1) + 7152 * Component(theme.bg, 2)
                       + 722 * Component(theme.bg, 3)) * 100 < 45 * 255 * 10000
        /\ (theme.base = "" /\ ~IsHexColour(theme.bg)) =>
              (t_result.kind = "value" /\ ~t_result.dark)

====
